---- MODULE Spec2Model ----
(***************************************************************************)
(* Session lifecycle of playwright-server: the in-memory session registry  *)
(* (src/services/session.ts), the TTL timers (src/utils/ttl.ts), the       *)
(* recording tracker (src/services/recording.ts) and command execution     *)
(* (src/services/command.ts), as a state machine over the suspension       *)
(* points (await) of the Node.js event loop.                               *)
(*                                                                         *)
(* Time is counted in minutes (the route accepts ttl of 1..240 minutes).   *)
(***************************************************************************)
EXTENDS Integers, FiniteSets, Sequences, Bags, TLC

\* ---------------------------------------------------------------- bounds
MaxIds == 2         \* session ids issued by uuidv4 in one run
MaxTime == 1        \* the clock stops advancing here
MaxTasks == 2       \* async calls suspended at the same time
MaxResets == 1      \* resetSessionTTL calls per session object
MaxLen == 3         \* commands in one sequence request

\* ------------------------------------------------------ program constants
\* services/session.ts:17 (the environment sets MAX_CONCURRENT_SESSIONS=1)
MAX_CONCURRENT_SESSIONS == 1
\* routes/session.ts:25, the shortest ttl the route accepts (60000 ms)
TTL_MIN == 1

Ids == 1..MaxIds
TTLs == {TTL_MIN, TTL_MIN + 1}
NoTime == -1

\* undefined, and the null ProxyConfig (no proxy: direct connection)
Undef == "undefined"
NoProxy == [protocol |-> "none", hostname |-> "", port |-> 0,
            username |-> Undef, password |-> Undef, bypass |-> Undef]

VARIABLES
    server,           \* the process: "starting", "preparing", "listening", "exited"
    globalProxyConfig,\* server.ts:19, the proxy loaded from the environment
    contextOptions,   \* per id, the proxy option its context was launched with
    now,              \* Date.now(), in minutes
    nextId,           \* the next id uuidv4() returns
    sessions,         \* keys of the Map `sessions`
    heap,             \* the SessionData objects, by id (live or stale)
    ctx,              \* state of each session's browserContext
    timers,           \* armed NodeJS timeouts: [sid, n, deadline]
    sessionMetadata,  \* recording tracker: id -> endTime (NoTime = null)
    userDataDirs,     \* ids whose user-data directory exists on disk
    recordings,       \* recording directory content, by id
    effects,          \* per id, how often each teardown effect ran
    tasks,            \* bag of the suspended async calls
    ret               \* the most recent completed call and its outcome

vars == <<server, globalProxyConfig, contextOptions, now, nextId, sessions, heap,
          ctx, timers, sessionMetadata, userDataDirs, recordings, effects, tasks, ret>>

\* a suspended call: its position and its local variables (the last six are
\* those of executeCommandSequence; calls logs the handlers it has invoked)
Task(op, pc, sid) == [op |-> op, pc |-> pc, sid |-> sid, ttl |-> 0, rec |-> FALSE,
                      t0 |-> 0, commands |-> <<>>, results |-> <<>>, index |-> 0,
                      page |-> FALSE, settled |-> "none", calls |-> <<>>,
                      optProxy |-> NoProxy, proxy |-> NoProxy, failed |-> {}]

NoEffects == [closeCalls |-> 0, closeDone |-> 0, finalizeRuns |-> 0,
              markEnded |-> 0, rmCalls |-> 0, deletes |-> 0]

\* the value of a call that returned nothing structured
NoResult == [results |-> <<>>, completedCount |-> 0, totalCount |-> 0,
             halted |-> FALSE, calls |-> <<>>]

Ret(op, sid, out) == [op |-> op, sid |-> sid, out |-> out, val |-> NoResult,
                      details |-> {}]

\* the process once it listens, started without a proxy in its environment
Init ==
    /\ server = "listening"
    /\ globalProxyConfig = NoProxy
    /\ contextOptions = <<>>
    /\ now = 0
    /\ nextId = 1
    /\ sessions = {}
    /\ heap = <<>>
    /\ ctx = <<>>
    /\ timers = {}
    /\ sessionMetadata = <<>>
    /\ userDataDirs = {}
    /\ recordings = <<>>
    /\ effects = [i \in Ids |-> NoEffects]
    /\ tasks = EmptyBag
    /\ ret = Ret("none", 0, "none")

\* the process when server.ts is loaded, before startServer has run
InitBoot ==
    /\ server = "starting"
    /\ globalProxyConfig = NoProxy
    /\ contextOptions = <<>>
    /\ now = 0
    /\ nextId = 1
    /\ sessions = {}
    /\ heap = <<>>
    /\ ctx = <<>>
    /\ timers = {}
    /\ sessionMetadata = <<>>
    /\ userDataDirs = {}
    /\ recordings = <<>>
    /\ effects = [i \in Ids |-> NoEffects]
    /\ tasks = EmptyBag
    /\ ret = Ret("none", 0, "none")

\* ---------------------------------------------------------------- helpers
Put(f, k, v) == [x \in (DOMAIN f) \cup {k} |-> IF x = k THEN v ELSE f[x]]

\* the suspended calls; MaxTasks caps how many are in flight
Tasks == BagToSet(tasks)
CanSuspend == BagCardinality(tasks) < MaxTasks
Suspend(me) == tasks (+) SetToBag({me})
Resume(me, next) == (tasks (-) SetToBag({me})) (+) SetToBag({next})
Return(me) == tasks (-) SetToBag({me})

\* mutant: the id is derived from the registry content instead of being fresh
uuidv4_Reuse == CHOOSE i \in Ids \ sessions : \A j \in Ids \ sessions : i <= j

\* uuidv4(): a fresh id on every call
uuidv4 == nextId

\* getSession (throws SessionNotFoundError when the Map has no entry)
getSession(id) == IF id \in sessions THEN "ok" ELSE "SessionNotFound"

\* mutant: the old timer is not cancelled
clearTimeout_Noop(tm, sid, n) == tm

clearTimeout(tm, sid, n) == {x \in tm : ~(x.sid = sid /\ x.n = n)}

\* mutant: no timer is armed
setTimeout_Unarmed(tm, sid, n, delay) == tm

setTimeout(tm, sid, n, delay) == tm \cup {[sid |-> sid, n |-> n, deadline |-> now + delay]}

\* ------------------------------------------------------------------ clock
Tick ==
    /\ now < MaxTime
    /\ now' = now + 1
    /\ UNCHANGED <<server, globalProxyConfig, contextOptions, nextId, sessions, heap,
                   ctx, timers, sessionMetadata, userDataDirs, recordings, effects,
                   tasks, ret>>

\* ------------------------------------------------ services/proxy.ts
\* proxy.ts:5 and 7-11
SUPPORTED_PROTOCOLS == {"http", "https", "socks5"}
DEFAULT_PORTS == [p \in SUPPORTED_PROTOCOLS |->
                     IF p = "http" THEN 80 ELSE IF p = "https" THEN 443 ELSE 1080]

\* the server strings tried, as new URL() reads them: valid is FALSE for a
\* string it rejects; port, username and password are "" when absent
ProxyUrls ==
    [valid : {TRUE}, protocol : {"http", "ftp"}, hostname : {"proxy"},
     port : {"", "8080", "0"}, username : {"", "user"}, password : {"", "pass"}]
    \cup {[valid |-> FALSE, protocol |-> "", hostname |-> "", port |-> "",
           username |-> "", password |-> ""]}

\* parseInt(port, 10) on the port strings above
parseInt(str) == IF str = "8080" THEN 8080 ELSE 0

\* what a parse or a validation yields: a config, or a ProxyValidationError
\* with its details
Parsed(config) == [ok |-> TRUE, config |-> config, details |-> {}]
ProxyValidationError(details) == [ok |-> FALSE, config |-> NoProxy, details |-> details]

\* parseProxyUrl (lines 26-65)
parseProxyUrl(url) ==
    IF ~url.valid THEN ProxyValidationError({"URL parsing failed"})
    ELSE IF url.protocol \notin SUPPORTED_PROTOCOLS
    THEN ProxyValidationError({"Supported protocols"})
    ELSE IF url.hostname = ""
    THEN ProxyValidationError({"URL must include a valid hostname"})
    ELSE Parsed([protocol |-> url.protocol,
                 hostname |-> url.hostname,
                 port |-> IF url.port # "" THEN parseInt(url.port)
                          ELSE DEFAULT_PORTS[url.protocol],
                 username |-> IF url.username # "" THEN url.username ELSE Undef,
                 password |-> IF url.password # "" THEN url.password ELSE Undef,
                 bypass |-> Undef])

\* mutant: separate credentials replace the URL's only when both are given
parseProxyRequest_BothOnly(request) ==
    LET r == parseProxyUrl(request.server) IN
    IF ~r.ok THEN r
    ELSE Parsed([r.config EXCEPT
             !.username = IF request.username # Undef /\ request.password # Undef
                          THEN request.username ELSE @,
             !.password = IF request.username # Undef /\ request.password # Undef
                          THEN request.password ELSE @,
             !.bypass = IF request.bypass # Undef THEN request.bypass ELSE @])

\* parseProxyRequest (lines 71-87)
parseProxyRequest(request) ==
    LET r == parseProxyUrl(request.server) IN
    IF ~r.ok THEN r
    ELSE Parsed([r.config EXCEPT
             !.username = IF request.username # Undef \/ request.password # Undef
                          THEN request.username ELSE @,
             !.password = IF request.username # Undef \/ request.password # Undef
                          THEN request.password ELSE @,
             !.bypass = IF request.bypass # Undef THEN request.bypass ELSE @])

\* validateProxyConfig (lines 93-124): the list of errors
validateProxyConfig(config) ==
    LET hasUsername == config.username # Undef /\ config.username # ""
        hasPassword == config.password # Undef /\ config.password # ""
    IN (IF config.protocol \notin SUPPORTED_PROTOCOLS
        THEN {"Unsupported protocol"} ELSE {})
       \cup (IF config.hostname = "" THEN {"Hostname is required"} ELSE {})
       \cup (IF config.port < 1 \/ config.port > 65535
             THEN {"Port must be between 1 and 65535"} ELSE {})
       \cup (IF hasUsername # hasPassword
             THEN {"Proxy authentication incomplete"} ELSE {})

\* validateProxyConfigOrThrow (lines 129-134), after a parse
validateProxyConfigOrThrow(r) ==
    IF ~r.ok THEN r
    ELSE IF validateProxyConfig(r.config) # {}
    THEN ProxyValidationError(validateProxyConfig(r.config))
    ELSE r

\* toPlaywrightProxy (lines 139-151)
toPlaywrightProxy(config) ==
    [server |-> <<config.protocol, config.hostname, config.port>>,
     username |-> config.username, password |-> config.password,
     bypass |-> config.bypass]

\* the proxy URLs the environment may hold (Undef: none of the variables set)
NoUrl == [valid |-> FALSE, protocol |-> Undef, hostname |-> "", port |-> "",
          username |-> "", password |-> ""]
EnvProxyUrls ==
    {NoUrl} \cup {u \in ProxyUrls : u.port \in {"", "0"} /\ u.username = ""}

\* getGlobalProxyConfig (lines 157-213): null without a URL; else the parsed
\* and validated config with the default NO_PROXY list, or the error rethrown
getGlobalProxyConfig(envUrl) ==
    IF envUrl = NoUrl THEN Parsed(NoProxy)
    ELSE LET r == parseProxyUrl(envUrl) IN
         IF ~r.ok THEN r
         ELSE validateProxyConfigOrThrow(
                  Parsed([r.config EXCEPT !.bypass = "localhost,127.0.0.1,::1"]))

\* ------------------------------------------------ services/session.ts
\* mutant: the limit test is > instead of >=
AtCapacity_OffByOne == Cardinality(sessions) > MAX_CONCURRENT_SESSIONS

\* createSession, line 34: the capacity check
AtCapacity == Cardinality(sessions) >= MAX_CONCURRENT_SESSIONS

\* recording.ts registerRecordingSession / markSessionEnded
registerRecordingSession(sid) == Put(sessionMetadata, sid, NoTime)

markSessionEnded(sid) ==
    IF sid \in DOMAIN sessionMetadata
    THEN [sessionMetadata EXCEPT ![sid] = now]
    ELSE sessionMetadata

\* mutant: the global proxy wins over the proxy of the request
effectiveProxy_GlobalFirst(proxy) ==
    IF globalProxyConfig # NoProxy THEN globalProxyConfig ELSE proxy

\* createSession, line 46: options.proxy || getGlobalProxy()
effectiveProxy(proxy) ==
    IF proxy # NoProxy THEN proxy ELSE globalProxyConfig

\* createSession up to its first await (lines 32-109): capacity check, fresh
\* id, timestamps, effective proxy, recording registration, then the context
\* launch starts.  proxy is options.proxy (NoProxy when the option is absent).
CreateSession(ttl, rec, proxy) ==
    IF AtCapacity
    THEN /\ ret' = Ret("createSession", 0, "MaxSessionsReached")
         /\ UNCHANGED <<server, globalProxyConfig, contextOptions,
                        now, nextId, sessions, heap, ctx, timers, sessionMetadata,
                        userDataDirs, recordings, effects, tasks>>
    ELSE /\ nextId <= MaxIds
         /\ CanSuspend
         /\ nextId' = nextId + 1
         /\ sessionMetadata' = IF rec THEN registerRecordingSession(uuidv4)
                               ELSE sessionMetadata
         /\ tasks' = Suspend([Task("createSession", "launch", uuidv4) EXCEPT
                                  !.ttl = ttl, !.rec = rec, !.t0 = now,
                                  !.optProxy = proxy,
                                  !.proxy = effectiveProxy(proxy)])
         /\ UNCHANGED <<server, globalProxyConfig, contextOptions, now, sessions, heap,
                        ctx, timers, userDataDirs, recordings, effects, ret>>

\* contextOptions.proxy (lines 56-58): set only when there is an effective
\* proxy; Direct stands for context options without a proxy key
Direct == [server |-> <<>>, username |-> Undef, password |-> Undef, bypass |-> Undef]
ContextProxy(proxy) == IF proxy # NoProxy THEN toPlaywrightProxy(proxy) ELSE Direct

\* createSession called without a proxy option
CreateSessionCall(ttl, rec) == CreateSession(ttl, rec, NoProxy)

\* launchPersistentContext settles (line 109); on success addInitScript starts
CreateSessionLaunched(me, ok) ==
    /\ me.pc = "launch"
    /\ IF ok
       THEN /\ ctx' = Put(ctx, me.sid, "open")
            /\ contextOptions' = Put(contextOptions, me.sid, ContextProxy(me.proxy))
            /\ userDataDirs' = userDataDirs \cup {me.sid}
            /\ recordings' = IF me.rec THEN Put(recordings, me.sid, "raw")
                             ELSE recordings
            /\ tasks' = Resume(me, [me EXCEPT !.pc = "init"])
            /\ UNCHANGED ret
       ELSE /\ tasks' = Return(me)
            /\ ret' = Ret("createSession", me.sid, "LaunchError")
            /\ UNCHANGED <<ctx, contextOptions, userDataDirs, recordings>>
    /\ UNCHANGED <<server, globalProxyConfig, now, nextId, sessions, heap, timers,
                   sessionMetadata, effects>>

\* the SessionData object of lines 192-205
SessionData(me) ==
    [id |-> me.sid, ttl |-> me.ttl, createdAt |-> me.t0, lastActivityAt |-> me.t0,
     expiresAt |-> me.t0 + me.ttl, timeoutHandle |-> 1, recording |-> me.rec,
     proxyConfig |-> me.proxy]

\* addInitScript settles (line 148); on success the session object is built,
\* its timer armed and the Map entry set (lines 192-209)
CreateSessionInit(me, ok) ==
    /\ me.pc = "init"
    /\ IF ok
       THEN /\ heap' = Put(heap, me.sid, SessionData(me))
            /\ timers' = setTimeout(timers, me.sid, 1, me.ttl)
            /\ sessions' = sessions \cup {me.sid}
            /\ ret' = Ret("createSession", me.sid, "ok")
       ELSE /\ ret' = Ret("createSession", me.sid, "InitScriptError")
            /\ UNCHANGED <<heap, timers, sessions>>
    /\ tasks' = Return(me)
    /\ UNCHANGED <<server, globalProxyConfig, contextOptions,
                   now, nextId, ctx, sessionMetadata, userDataDirs, recordings,
                   effects>>

\* mutant: the early return tests the session object, not the Map entry
cleanupSession_NoGuard(id, tm, who) ==
    IF id \notin DOMAIN heap
    THEN /\ timers' = tm
         /\ ret' = Ret(who, id, "absent")
         /\ UNCHANGED <<effects, tasks>>
    ELSE /\ CanSuspend
         /\ timers' = clearTimeout(tm, id, heap[id].timeoutHandle)
         /\ effects' = [effects EXCEPT ![id].closeCalls = @ + 1]
         /\ tasks' = Suspend(Task(who, "close", id))
         /\ UNCHANGED ret

\* mutant: teardown starts close() without cancelling the expiry timer
cleanupSession_KeepTimer(id, tm, who) ==
    IF id \notin sessions
    THEN /\ timers' = tm
         /\ ret' = Ret(who, id, "absent")
         /\ UNCHANGED <<effects, tasks>>
    ELSE /\ CanSuspend
         /\ timers' = tm
         /\ effects' = [effects EXCEPT ![id].closeCalls = @ + 1]
         /\ tasks' = Suspend(Task(who, "close", id))
         /\ UNCHANGED ret

\* cleanupSession up to its first await (lines 212-221), entered with the
\* armed timers tm: absent id -> return; else clearTimeout and start close()
cleanupSession(id, tm, who) ==
    IF id \notin sessions
    THEN /\ timers' = tm
         /\ ret' = Ret(who, id, "absent")
         /\ UNCHANGED <<effects, tasks>>
    ELSE /\ CanSuspend
         /\ timers' = clearTimeout(tm, id, heap[id].timeoutHandle)
         /\ effects' = [effects EXCEPT ![id].closeCalls = @ + 1]
         /\ tasks' = Suspend(Task(who, "close", id))
         /\ UNCHANGED ret

\* a direct call of the exported cleanupSession, for any id
CleanupSessionCall(id) ==
    /\ cleanupSession(id, timers, "cleanupSession")
    /\ UNCHANGED <<server, globalProxyConfig, contextOptions,
                   now, nextId, sessions, heap, ctx, sessionMetadata,
                   userDataDirs, recordings>>

\* the expiry callback of setTimeout (lines 199-201, ttl.ts 685-687)
TimerFire(h) ==
    /\ h \in timers
    /\ h.deadline <= now
    /\ cleanupSession(h.sid, timers \ {h}, "timer")
    /\ UNCHANGED <<server, globalProxyConfig, contextOptions,
                   now, nextId, sessions, heap, ctx, sessionMetadata,
                   userDataDirs, recordings>>

\* mutant: a rejected close() is not caught and ends the teardown
CleanupClosed_Throw(me, ok) ==
    /\ me.pc = "close"
    /\ ctx' = IF ok THEN [ctx EXCEPT ![me.sid] = "closed"] ELSE ctx
    /\ effects' = [effects EXCEPT ![me.sid].closeDone = @ + 1]
    /\ IF ok
       THEN /\ tasks' = Resume(me, [me EXCEPT
                   !.pc = IF heap[me.sid].recording THEN "finalize" ELSE "rm"])
            /\ UNCHANGED ret
       ELSE /\ tasks' = Return(me)
            /\ ret' = Ret(me.op, me.sid, "CloseError")
    /\ UNCHANGED <<server, globalProxyConfig, contextOptions,
                   now, nextId, sessions, heap, timers, sessionMetadata,
                   userDataDirs, recordings>>

\* browserContext.close() settles (lines 220-231); a rejection is logged
CleanupClosed(me, ok) ==
    /\ me.pc = "close"
    /\ ctx' = IF ok THEN [ctx EXCEPT ![me.sid] = "closed"] ELSE ctx
    /\ effects' = [effects EXCEPT ![me.sid].closeDone = @ + 1]
    /\ tasks' = Resume(me, [me EXCEPT
           !.pc = IF heap[me.sid].recording THEN "finalize" ELSE "rm"])
    /\ UNCHANGED <<server, globalProxyConfig, contextOptions,
                   now, nextId, sessions, heap, timers, sessionMetadata,
                   userDataDirs, recordings, ret>>

\* readdir/rename settle (lines 234-263), then markSessionEnded (line 265)
CleanupFinalized(me, ok) ==
    /\ me.pc = "finalize"
    /\ ok => me.sid \in DOMAIN recordings
    /\ recordings' = IF ok THEN [recordings EXCEPT ![me.sid] = "video.webm"]
                     ELSE recordings
    /\ sessionMetadata' = markSessionEnded(me.sid)
    /\ effects' = [effects EXCEPT ![me.sid].finalizeRuns = @ + 1,
                                  ![me.sid].markEnded = @ + 1]
    /\ tasks' = Resume(me, [me EXCEPT !.pc = "rm"])
    /\ UNCHANGED <<server, globalProxyConfig, contextOptions,
                   now, nextId, sessions, heap, ctx, timers, userDataDirs, ret>>

\* mutant: the teardown empties the registry instead of deleting its entry
CleanupRemoved_Clear(me, ok) ==
    /\ me.pc = "rm"
    /\ userDataDirs' = IF ok THEN userDataDirs \ {me.sid} ELSE userDataDirs
    /\ effects' = [effects EXCEPT ![me.sid].rmCalls = @ + 1,
                                  ![me.sid].deletes = @ + 1]
    /\ sessions' = {}
    /\ ret' = Ret(me.op, me.sid, "ok")
    /\ tasks' = Return(me)
    /\ UNCHANGED <<server, globalProxyConfig, contextOptions,
                   now, nextId, heap, ctx, timers, sessionMetadata, recordings>>

\* fs.rm settles (lines 269-290), then sessions.delete (line 293) and return
CleanupRemoved(me, ok) ==
    /\ me.pc = "rm"
    /\ userDataDirs' = IF ok THEN userDataDirs \ {me.sid} ELSE userDataDirs
    /\ effects' = [effects EXCEPT ![me.sid].rmCalls = @ + 1,
                                  ![me.sid].deletes = @ + 1]
    /\ sessions' = sessions \ {me.sid}
    /\ ret' = Ret(me.op, me.sid, "ok")
    /\ tasks' = Return(me)
    /\ UNCHANGED <<server, globalProxyConfig, contextOptions,
                   now, nextId, heap, ctx, timers, sessionMetadata, recordings>>

\* ------------------------------------------------ services/recording.ts
\* the clock counts minutes (TTL_MIN is the 60000 ms of one minute): the
\* retention window of one hour and the sweep interval of 15 minutes
ONE_HOUR_MS == 60
CLEANUP_INTERVAL_MS == 15

Drop(f, k) == [x \in (DOMAIN f) \ {k} |-> f[x]]

\* time passes while nothing else runs: an hour at once
Sleep ==
    /\ now <= MaxTime
    /\ now' = now + ONE_HOUR_MS
    /\ UNCHANGED <<server, globalProxyConfig, contextOptions, nextId, sessions, heap,
                   ctx, timers, sessionMetadata, userDataDirs, recordings, effects,
                   tasks, ret>>

\* mutant: an artifact ended exactly one hour ago is swept already
Expired_AtHour(endTime, t0) == endTime # NoTime /\ t0 - endTime >= ONE_HOUR_MS

\* the test of cleanupOldRecordings on one entry, t0 being the Date.now() read
\* when the sweep began
Expired(endTime, t0) == endTime # NoTime /\ t0 - endTime > ONE_HOUR_MS

\* the entries the Map iterator still yields after the entry of id after (a
\* Map iterates in insertion order, which is the order of the ids) and that
\* pass the test
Pending(meta, after, t0) == {id \in DOMAIN meta : id > after /\ Expired(meta[id], t0)}
First(ids) == CHOOSE i \in ids : \A j \in ids : i <= j

\* the setInterval callback: cleanupOldRecordings runs up to its first
\* fs.rm; the first callback comes one interval after the process started
SweepStart ==
    /\ server = "listening"
    /\ now >= CLEANUP_INTERVAL_MS
    /\ IF Pending(sessionMetadata, 0, now) = {}
       THEN /\ ret' = Ret("cleanupOldRecordings", 0, "ok")
            /\ UNCHANGED tasks
       ELSE /\ CanSuspend
            /\ tasks' = Suspend([Task("cleanupOldRecordings", "sweep",
                                      First(Pending(sessionMetadata, 0, now)))
                                     EXCEPT !.t0 = now])
            /\ UNCHANGED ret
    /\ UNCHANGED <<server, globalProxyConfig, contextOptions, now, nextId, sessions,
                   heap, ctx, timers, sessionMetadata, userDataDirs, recordings,
                   effects>>

\* fs.rm of one recording settles: on success the entry is dropped, a failure
\* is logged (failed collects the ids this sweep logged an error for); then
\* the loop goes on to the next entry that passes the test
SweepRemoved(me, ok) ==
    /\ me.op = "cleanupOldRecordings"
    /\ me.pc = "sweep"
    /\ recordings' = IF ok THEN Drop(recordings, me.sid) ELSE recordings
    /\ sessionMetadata' = IF ok THEN Drop(sessionMetadata, me.sid)
                          ELSE sessionMetadata
    /\ IF Pending(sessionMetadata', me.sid, me.t0) = {}
       THEN /\ tasks' = Return(me)
            /\ ret' = Ret("cleanupOldRecordings", 0, "ok")
       ELSE /\ tasks' = Resume(me, [me EXCEPT
                   !.sid = First(Pending(sessionMetadata', me.sid, me.t0)),
                   !.failed = IF ok THEN @ ELSE @ \cup {me.sid}])
            /\ UNCHANGED ret
    /\ UNCHANGED <<server, globalProxyConfig, contextOptions, now, nextId, sessions,
                   heap, ctx, timers, userDataDirs, effects>>

\* ------------------------------------------------ routes/session.ts
\* the proxy field of a POST /sessions body: absent (given is FALSE), or an
\* object whose server is a URL string or missing (NoUrl), with or without
\* separate credentials
NoRequest == [given |-> FALSE, server |-> NoUrl, username |-> Undef,
              password |-> Undef, bypass |-> Undef]
ProxyRequests ==
    [given : {TRUE}, server : ProxyUrls \cup {NoUrl}, username : {Undef, "", "admin"},
     password : {Undef, "", "secret"}, bypass : {Undef}]

\* the proxy block of the route (lines 35-62): the parsed and validated
\* config, or the ProxyValidationError thrown
routeProxy(proxy) ==
    IF proxy.server = NoUrl
    THEN ProxyValidationError({"Proxy configuration must include a server field"})
    ELSE validateProxyConfigOrThrow(parseProxyRequest(proxy))

\* POST /sessions (lines 16-83) for a ttl in range, once the server listens:
\* a proxy that fails validation ends the request before createSession
CreateSessionRoute(ttl, rec, proxy) ==
    /\ server = "listening"
    /\ IF proxy.given /\ ~routeProxy(proxy).ok
       THEN /\ ret' = [Ret("createSession", 0, "ProxyValidationError") EXCEPT
                          !.details = routeProxy(proxy).details]
            /\ UNCHANGED <<server, globalProxyConfig, contextOptions, now, nextId,
                           sessions, heap, ctx, timers, sessionMetadata, userDataDirs,
                           recordings, effects, tasks>>
       ELSE CreateSession(ttl, rec, IF proxy.given THEN routeProxy(proxy).config
                                    ELSE NoProxy)

\* GET /sessions (lines 103-118): reads the registry, changes nothing
ListRoute ==
    /\ server = "listening"
    /\ ret' = Ret("getAllSessions", 0, "ok")
    /\ UNCHANGED <<server, globalProxyConfig, contextOptions, now, nextId, sessions,
                   heap, ctx, timers, sessionMetadata, userDataDirs, recordings,
                   effects, tasks>>

\* DELETE /sessions/:id (lines 86-100): getSession, then cleanupSession
StopRoute(id) ==
    /\ IF getSession(id) # "ok"
       THEN /\ ret' = Ret("stop", id, "SessionNotFound")
            /\ UNCHANGED <<timers, effects, tasks>>
       ELSE cleanupSession(id, timers, "stop")
    /\ UNCHANGED <<server, globalProxyConfig, contextOptions,
                   now, nextId, sessions, heap, ctx, sessionMetadata,
                   userDataDirs, recordings>>

\* ------------------------------------------------ server.ts
\* mutant: an invalid global proxy is logged and startup goes on without one
StartServer_Continue(envUrl) ==
    /\ server = "starting"
    /\ globalProxyConfig' = getGlobalProxyConfig(envUrl).config
    /\ server' = "preparing"
    /\ UNCHANGED <<contextOptions, now, nextId, sessions, heap, ctx, timers,
                   sessionMetadata, userDataDirs, recordings, effects, tasks, ret>>

\* startServer up to its await (lines 84-118): the global proxy is loaded and
\* validated; an error there ends the process (process.exit(1), line 114)
StartServer(envUrl) ==
    /\ server = "starting"
    /\ IF getGlobalProxyConfig(envUrl).ok
       THEN /\ globalProxyConfig' = getGlobalProxyConfig(envUrl).config
            /\ server' = "preparing"
       ELSE /\ server' = "exited"
            /\ UNCHANGED globalProxyConfig
    /\ UNCHANGED <<contextOptions, now, nextId, sessions, heap, ctx, timers,
                   sessionMetadata, userDataDirs, recordings, effects, tasks, ret>>

\* ensureRecordingsDirectory settles (line 118): then the cleanup scheduler is
\* started and the server listens (121-123); its rejection is not handled and
\* ends the process
ServerListen(ok) ==
    /\ server = "preparing"
    /\ server' = IF ok THEN "listening" ELSE "crashed"
    /\ UNCHANGED <<globalProxyConfig, contextOptions, now, nextId, sessions, heap, ctx,
                   timers, sessionMetadata, userDataDirs, recordings, effects, tasks,
                   ret>>

\* ------------------------------------------------ utils/ttl.ts
\* mutant: the reset re-arms the timer but leaves expiresAt as it was
ResetSessionTTL_StaleExpiry(sid) ==
    /\ sid \in DOMAIN heap
    /\ heap[sid].timeoutHandle <= MaxResets
    /\ LET s == heap[sid] IN
       /\ timers' = setTimeout(clearTimeout(timers, sid, s.timeoutHandle),
                               sid, s.timeoutHandle + 1, s.ttl)
       /\ heap' = [heap EXCEPT ![sid].lastActivityAt = now,
                               ![sid].timeoutHandle = s.timeoutHandle + 1]
    /\ UNCHANGED <<server, globalProxyConfig, contextOptions,
                   now, nextId, sessions, ctx, sessionMetadata, userDataDirs,
                   recordings, effects, tasks, ret>>

\* mutant: the reset restarts the session, stamping createdAt as well
ResetSessionTTL_Restart(sid) ==
    /\ sid \in DOMAIN heap
    /\ heap[sid].timeoutHandle <= MaxResets
    /\ LET s == heap[sid] IN
       /\ timers' = setTimeout(clearTimeout(timers, sid, s.timeoutHandle),
                               sid, s.timeoutHandle + 1, s.ttl)
       /\ heap' = [heap EXCEPT ![sid].createdAt = now,
                               ![sid].lastActivityAt = now,
                               ![sid].expiresAt = now + s.ttl,
                               ![sid].timeoutHandle = s.timeoutHandle + 1]
    /\ UNCHANGED <<server, globalProxyConfig, contextOptions,
                   now, nextId, sessions, ctx, sessionMetadata, userDataDirs,
                   recordings, effects, tasks, ret>>

\* resetSessionTTL(session), on any SessionData object a caller holds
ResetSessionTTL(sid) ==
    /\ sid \in DOMAIN heap
    /\ heap[sid].timeoutHandle <= MaxResets
    /\ LET s == heap[sid] IN
       /\ timers' = setTimeout(clearTimeout(timers, sid, s.timeoutHandle),
                               sid, s.timeoutHandle + 1, s.ttl)
       /\ heap' = [heap EXCEPT ![sid].lastActivityAt = now,
                               ![sid].expiresAt = now + s.ttl,
                               ![sid].timeoutHandle = s.timeoutHandle + 1]
    /\ UNCHANGED <<server, globalProxyConfig, contextOptions,
                   now, nextId, sessions, ctx, sessionMetadata, userDataDirs,
                   recordings, effects, tasks, ret>>

\* ------------------------------------------------ services/command.ts
\* two of the registered handlers: click acts on the page (lines 42-46), wait
\* only sleeps (lines 134-141); "bogus" is a name the registry does not hold
commandRegistry == {"click", "wait"}
Commands == {"click", "wait", "bogus"}
Outcomes == {"ok", "Timeout", "ElementNotFound", "ExecutionError"}

\* how the awaited handler of cmd can settle (lines 323-338): a page operation
\* succeeds only on an open context; wait resolves whatever the context's
\* state, or throws a plain Error (invalid duration), mapped to ExecutionError
HandlerSettles(cmd, sid, res) ==
    /\ res \in Outcomes
    /\ IF cmd = "wait"
       THEN res \in {"ok", "ExecutionError"}
       ELSE res = "ok" => ctx[sid] = "open"

\* mutant: the session is resolved before the command name is looked up
executeCommand_SessionFirst(id, cmd) ==
    IF getSession(id) # "ok" THEN "SessionNotFound"
    ELSE IF cmd \notin commandRegistry THEN "CommandNotFound"
    ELSE IF ctx[id] = "closed" THEN "ExecutionError"
    ELSE "handler"

\* executeCommand before its await (lines 296-313): what the call meets first.
\* "handler" stands for a handler that was found and is about to be awaited.
executeCommand(id, cmd) ==
    IF cmd \notin commandRegistry THEN "CommandNotFound"
    ELSE IF getSession(id) # "ok" THEN "SessionNotFound"
    ELSE IF ctx[id] = "closed" THEN "ExecutionError"
    ELSE "handler"

\* executeCommand up to its await (lines 296-323)
ExecuteCommandCall(id, cmd) ==
    /\ IF executeCommand(id, cmd) # "handler"
       THEN /\ ret' = Ret("executeCommand", id, executeCommand(id, cmd))
            /\ UNCHANGED tasks
       ELSE /\ CanSuspend
            /\ tasks' = Suspend([Task("executeCommand", "handler", id) EXCEPT
                                     !.commands = <<cmd>>])
            /\ UNCHANGED ret
    /\ UNCHANGED <<server, globalProxyConfig, contextOptions,
                   now, nextId, sessions, heap, ctx, timers, sessionMetadata,
                   userDataDirs, recordings, effects>>

\* the handler settles (lines 323-338): the result, or a classified error
ExecuteCommandDone(me, res) ==
    /\ me.pc = "handler"
    /\ HandlerSettles(me.commands[1], me.sid, res)
    /\ ret' = Ret("executeCommand", me.sid, res)
    /\ tasks' = Return(me)
    /\ UNCHANGED <<server, globalProxyConfig, contextOptions,
                   now, nextId, sessions, heap, ctx, timers, sessionMetadata,
                   userDataDirs, recordings, effects>>

\* the substrings the catch block looks for in error.message (lines 328, 333)
Markers == {"Timeout", "waiting for selector", "not found"}
\* a handler's rejection, told apart by the markers its message contains; the
\* empty set is a message with none of them (or no message at all)
Messages == SUBSET Markers

\* mutant: the element-missing test is made before the timeout test
classify_ElementFirst(message) ==
    IF "waiting for selector" \in message \/ "not found" \in message
    THEN "ElementNotFound"
    ELSE IF "Timeout" \in message THEN "Timeout"
    ELSE "ExecutionError"

\* the catch block of executeCommand (lines 326-338): the first test that
\* matches decides the class of the error that is thrown on
classify(message) ==
    IF "Timeout" \in message THEN "Timeout"
    ELSE IF "waiting for selector" \in message \/ "not found" \in message
    THEN "ElementNotFound"
    ELSE "ExecutionError"

\* what the handler of cmd can reject with: wait throws its own Error, whose
\* text holds no marker (line 137); the page calls reject with any message
Rejections(cmd) == IF cmd = "wait" THEN {{}} ELSE Messages

\* the handler rejects (line 323) and the catch block throws the classified
\* error (lines 326-338)
ExecuteCommandThrown(me, message) ==
    /\ me.pc = "handler"
    /\ message \in Rejections(me.commands[1])
    /\ ret' = Ret("executeCommand", me.sid, classify(message))
    /\ tasks' = Return(me)
    /\ UNCHANGED <<server, globalProxyConfig, contextOptions,
                   now, nextId, sessions, heap, ctx, timers, sessionMetadata,
                   userDataDirs, recordings, effects>>

\* the request bodies the sequence route passes on (routes/command.ts:20-32):
\* non-empty arrays whose elements carry a command name
Requests == UNION {[1..n -> Commands] : n \in 1..MaxLen}

\* mutant: the entry built in the catch block carries status success as well
CommandExecutionResult_AlwaysSuccess(index, cmd, res) ==
    [index |-> index, command |-> cmd, status |-> "success",
     error |-> IF res = "ok" THEN "none" ELSE res]

\* one entry of results (lines 390-397 and 433-441)
CommandExecutionResult(index, cmd, res) ==
    [index |-> index, command |-> cmd,
     status |-> IF res = "ok" THEN "success" ELSE "error",
     error |-> IF res = "ok" THEN "none" ELSE res]

\* mutant: completedCount counts every entry, failed ones included
SequenceResult_CountAll(results, totalCount, halted, calls) ==
    [results |-> results, completedCount |-> Len(results),
     totalCount |-> totalCount, halted |-> halted, calls |-> calls]

\* the returned object (lines 470-476)
SequenceResult(results, totalCount, halted, calls) ==
    [results |-> results,
     completedCount |-> Cardinality({k \in DOMAIN results : results[k].status = "success"}),
     totalCount |-> totalCount, halted |-> halted, calls |-> calls]

\* mutant: the loop walks the requests from the last to the first
LoopHead_Reversed(t) ==
    [t EXCEPT !.pc = "exec",
              !.settled = executeCommand(t.sid, t.commands[Len(t.commands) - t.index]),
              !.calls = IF executeCommand(t.sid, t.commands[Len(t.commands) - t.index])
                            = "handler"
                        THEN Append(@, Len(t.commands) - 1 - t.index) ELSE @]

\* one pass through the loop head (lines 361-374): executeCommand is called for
\* commands[index] and runs up to its await; the sequence awaits its promise
LoopHead(t) ==
    [t EXCEPT !.pc = "exec",
              !.settled = executeCommand(t.sid, t.commands[t.index + 1]),
              !.calls = IF executeCommand(t.sid, t.commands[t.index + 1]) = "handler"
                        THEN Append(@, t.index) ELSE @]

\* executeCommandSequence up to its first await (lines 345-374)
ExecuteSequenceCall(id, commands) ==
    /\ IF getSession(id) # "ok"
       THEN /\ ret' = Ret("executeCommandSequence", id, "SessionNotFound")
            /\ UNCHANGED tasks
       ELSE /\ CanSuspend
            /\ tasks' = Suspend(LoopHead(
                  [Task("executeCommandSequence", "exec", id) EXCEPT
                       !.commands = commands, !.page = (ctx[id] = "open")]))
            /\ UNCHANGED ret
    /\ UNCHANGED <<server, globalProxyConfig, contextOptions,
                   now, nextId, sessions, heap, ctx, timers, sessionMetadata,
                   userDataDirs, recordings, effects>>

\* mutant: a failed step is recorded but the loop goes on to the next command
SeqRecord_NoBreak(me, res) ==
    LET results == Append(me.results,
                          CommandExecutionResult(me.index, me.commands[me.index + 1], res))
    IN IF me.index + 1 < Len(me.commands)
       THEN /\ tasks' = Resume(me, LoopHead([me EXCEPT !.results = results,
                                                      !.index = @ + 1]))
            /\ UNCHANGED ret
       ELSE /\ tasks' = Return(me)
            /\ ret' = [Ret("executeCommandSequence", me.sid, "returned") EXCEPT
                          !.val = SequenceResult(results, Len(me.commands),
                                                 res # "ok", me.calls)]

\* mutant: the catch block leaves halted as it was initialised
SeqRecord_NoHalt(me, res) ==
    LET results == Append(me.results,
                          CommandExecutionResult(me.index, me.commands[me.index + 1], res))
    IN IF res = "ok" /\ me.index + 1 < Len(me.commands)
       THEN /\ tasks' = Resume(me, LoopHead([me EXCEPT !.results = results,
                                                      !.index = @ + 1]))
            /\ UNCHANGED ret
       ELSE /\ tasks' = Return(me)
            /\ ret' = [Ret("executeCommandSequence", me.sid, "returned") EXCEPT
                          !.val = SequenceResult(results, Len(me.commands),
                                                 FALSE, me.calls)]

\* the step's entry is pushed (lines 398, 442); after a success the loop goes
\* to the next index or ends (361, 470-476); after a failure it halts (465-466)
SeqRecord(me, res) ==
    LET results == Append(me.results,
                          CommandExecutionResult(me.index, me.commands[me.index + 1], res))
    IN IF res = "ok" /\ me.index + 1 < Len(me.commands)
       THEN /\ tasks' = Resume(me, LoopHead([me EXCEPT !.results = results,
                                                      !.index = @ + 1]))
            /\ UNCHANGED ret
       ELSE /\ tasks' = Return(me)
            /\ ret' = [Ret("executeCommandSequence", me.sid, "returned") EXCEPT
                          !.val = SequenceResult(results, Len(me.commands),
                                                 res # "ok", me.calls)]

\* mutant: the loop has no catch block, a failed step rejects the whole call
SeqExecuted_Rethrow(me, res) ==
    /\ me.pc = "exec"
    /\ IF me.settled = "handler"
       THEN HandlerSettles(me.commands[me.index + 1], me.sid, res)
       ELSE res = me.settled
    /\ IF res # "ok"
       THEN /\ tasks' = Return(me)
            /\ ret' = Ret("executeCommandSequence", me.sid, res)
       ELSE IF me.page
       THEN /\ tasks' = Resume(me, [me EXCEPT !.pc = "url", !.settled = res])
            /\ UNCHANGED ret
       ELSE SeqRecord(me, res)
    /\ UNCHANGED <<server, globalProxyConfig, contextOptions,
                   now, nextId, sessions, heap, ctx, timers, sessionMetadata,
                   userDataDirs, recordings, effects>>

\* the awaited executeCommand settles (line 369): a handler's result or error,
\* or the rejection the call met before its await; then page.url() is awaited
\* when the sequence holds a page (lines 381, 424)
SeqExecuted(me, res) ==
    /\ me.pc = "exec"
    /\ IF me.settled = "handler"
       THEN HandlerSettles(me.commands[me.index + 1], me.sid, res)
       ELSE res = me.settled
    /\ IF me.page
       THEN /\ tasks' = Resume(me, [me EXCEPT !.pc = "url", !.settled = res])
            /\ UNCHANGED ret
       ELSE SeqRecord(me, res)
    /\ UNCHANGED <<server, globalProxyConfig, contextOptions,
                   now, nextId, sessions, heap, ctx, timers, sessionMetadata,
                   userDataDirs, recordings, effects>>

\* page.url() settles (lines 383-386, 426-429; a failure only clears currentUrl)
SeqUrlDone(me) ==
    /\ me.pc = "url"
    /\ SeqRecord(me, me.settled)
    /\ UNCHANGED <<server, globalProxyConfig, contextOptions,
                   now, nextId, sessions, heap, ctx, timers, sessionMetadata,
                   userDataDirs, recordings, effects>>

\* every way executeCommand can settle
Settled == Outcomes \cup {"CommandNotFound", "SessionNotFound"}

\* ---------------------------------------------------------- specification
\* Registry and teardown: sessions of the minimum ttl, with or without a
\* recording, every awaited operation free to fail.
Next ==
    \/ Tick
    \/ \E rec \in BOOLEAN : CreateSessionCall(TTL_MIN, rec)
    \/ \E me \in Tasks, ok \in BOOLEAN : CreateSessionLaunched(me, ok)
    \/ \E me \in Tasks, ok \in BOOLEAN : CreateSessionInit(me, ok)
    \/ \E id \in Ids : CleanupSessionCall(id)
    \/ \E id \in Ids : StopRoute(id)
    \/ \E h \in timers : TimerFire(h)
    \/ \E me \in Tasks, ok \in BOOLEAN : CleanupClosed(me, ok)
    \/ \E me \in Tasks, ok \in BOOLEAN : CleanupFinalized(me, ok)
    \/ \E me \in Tasks, ok \in BOOLEAN : CleanupRemoved(me, ok)

Spec == Init /\ [][Next]_vars

\* Keep-alive: sessions of either ttl without recording, commands and TTL
\* resets, the awaited browser operations of create and teardown succeeding.
NextTTL ==
    \/ Tick
    \/ \E ttl \in TTLs : CreateSessionCall(ttl, FALSE)
    \/ \E me \in Tasks : CreateSessionLaunched(me, TRUE)
    \/ \E me \in Tasks : CreateSessionInit(me, TRUE)
    \/ \E id \in Ids : StopRoute(id)
    \/ \E h \in timers : TimerFire(h)
    \/ \E me \in Tasks : CleanupClosed(me, TRUE)
    \/ \E me \in Tasks : CleanupRemoved(me, TRUE)
    \/ \E id \in Ids : ResetSessionTTL(id)
    \/ \E id \in Ids : ExecuteCommandCall(id, "click")
    \/ \E me \in Tasks, res \in Outcomes : ExecuteCommandDone(me, res)

SpecTTL == Init /\ [][NextTTL]_vars

\* Teardown alone, at one instant of the clock: explicit stops and direct
\* cleanupSession calls, every awaited operation free to fail.  Node resumes a
\* suspended cleanupSession once the promise it awaits settles, which is the
\* weak fairness of the three resumption steps.
NextTeardown ==
    \/ \E rec \in BOOLEAN : CreateSessionCall(TTL_MIN, rec)
    \/ \E me \in Tasks, ok \in BOOLEAN : CreateSessionLaunched(me, ok)
    \/ \E me \in Tasks, ok \in BOOLEAN : CreateSessionInit(me, ok)
    \/ \E id \in Ids : CleanupSessionCall(id)
    \/ \E id \in Ids : StopRoute(id)
    \/ \E me \in Tasks, ok \in BOOLEAN : CleanupClosed(me, ok)
    \/ \E me \in Tasks, ok \in BOOLEAN : CleanupFinalized(me, ok)
    \/ \E me \in Tasks, ok \in BOOLEAN : CleanupRemoved(me, ok)

SpecTeardown ==
    /\ Init /\ [][NextTeardown]_vars
    /\ WF_vars(\E me \in Tasks, ok \in BOOLEAN : CleanupClosed(me, ok))
    /\ WF_vars(\E me \in Tasks, ok \in BOOLEAN : CleanupFinalized(me, ok))
    /\ WF_vars(\E me \in Tasks, ok \in BOOLEAN : CleanupRemoved(me, ok))

\* Command sequences against the first session created (without recording):
\* single commands and sequences over registered and unknown command names,
\* for its id and for an id that was never issued, explicit stops in between;
\* one sequence in flight at a time (single commands and stops overlap it);
\* the awaited browser operations of create and teardown succeeding.
NextSeq ==
    \/ nextId = 1 /\ CreateSessionCall(TTL_MIN, FALSE)
    \/ \E me \in Tasks : CreateSessionLaunched(me, TRUE)
    \/ \E me \in Tasks : CreateSessionInit(me, TRUE)
    \/ \E id \in Ids : StopRoute(id)
    \/ \E me \in Tasks : CleanupClosed(me, TRUE)
    \/ \E me \in Tasks : CleanupRemoved(me, TRUE)
    \/ \E id \in Ids, cmd \in Commands : ExecuteCommandCall(id, cmd)
    \/ \E me \in Tasks, res \in Outcomes : ExecuteCommandDone(me, res)
    \/ /\ \A t \in Tasks : t.op # "executeCommandSequence"
       /\ \E id \in Ids, commands \in Requests : ExecuteSequenceCall(id, commands)
    \/ \E me \in Tasks, res \in Settled : SeqExecuted(me, res)
    \/ \E me \in Tasks : SeqUrlDone(me)

SpecSeq == Init /\ [][NextSeq]_vars

\* The same, with the progress Node gives a suspended sequence: the promise of
\* executeCommand settles (every handler ends, by its result, its error or its
\* timeout) and page.url() settles at once.
SpecSeqLive ==
    /\ SpecSeq
    /\ WF_vars(\E me \in Tasks, res \in Settled : SeqExecuted(me, res))
    /\ WF_vars(\E me \in Tasks : SeqUrlDone(me))

\* Proxies: the process from its start, with any proxy URL in its environment;
\* once it listens, one session is created with any proxy field, with or
\* without recording, listed, used, kept alive, expired or stopped, the
\* awaited browser operations succeeding.
NextProxy ==
    \/ \E envUrl \in EnvProxyUrls : StartServer(envUrl)
    \/ \E ok \in BOOLEAN : ServerListen(ok)
    \/ \E rec \in BOOLEAN, proxy \in ProxyRequests \cup {NoRequest} :
          nextId = 1 /\ CreateSessionRoute(TTL_MIN, rec, proxy)
    \/ \E me \in Tasks : CreateSessionLaunched(me, TRUE)
    \/ \E me \in Tasks : CreateSessionInit(me, TRUE)
    \/ server = "listening" /\ Tick
    \/ ListRoute
    \/ \E id \in Ids : server = "listening" /\ StopRoute(id)
    \/ \E h \in timers : TimerFire(h)
    \/ \E me \in Tasks : CleanupClosed(me, TRUE)
    \/ \E me \in Tasks : CleanupFinalized(me, TRUE)
    \/ \E me \in Tasks : CleanupRemoved(me, TRUE)
    \/ \E id \in Ids : ResetSessionTTL(id)
    \/ \E id \in Ids : server = "listening" /\ ExecuteCommandCall(id, "click")
    \/ \E me \in Tasks, res \in Outcomes : ExecuteCommandDone(me, res)

SpecProxy == InitBoot /\ [][NextProxy]_vars

\* Recordings: sessions with or without recording are created, expire or are
\* stopped; the launch, the init script, the finalisation of the video and the
\* removal of a recording may fail; minutes and an hour pass; the sweep runs.
NextRec ==
    \/ Tick
    \/ Sleep
    \/ \E rec \in BOOLEAN : CreateSessionCall(TTL_MIN, rec)
    \/ \E me \in Tasks, ok \in BOOLEAN : CreateSessionLaunched(me, ok)
    \/ \E me \in Tasks, ok \in BOOLEAN : CreateSessionInit(me, ok)
    \/ \E id \in Ids : StopRoute(id)
    \/ \E h \in timers : TimerFire(h)
    \/ \E me \in Tasks : CleanupClosed(me, TRUE)
    \/ \E me \in Tasks, ok \in BOOLEAN : CleanupFinalized(me, ok)
    \/ \E me \in Tasks : CleanupRemoved(me, TRUE)
    \/ SweepStart
    \/ \E me \in Tasks, ok \in BOOLEAN : SweepRemoved(me, ok)

SpecRec == Init /\ [][NextRec]_vars

\* Expiry without any client call that ends a session: sessions of either ttl
\* are created and kept alive during the first minutes, every awaited
\* operation free to fail; then, no creation being in progress, an hour
\* passes.  Node runs a timer callback that is due and resumes a call once the
\* promise it awaits settles, and time goes on: the weak fairness of the
\* clock, the timers and the resumptions.
Creating == \E t \in Tasks : t.op = "createSession"
NextExpiry ==
    \/ Tick
    \/ ~Creating /\ Sleep
    \/ \E ttl \in TTLs, rec \in BOOLEAN : now <= MaxTime /\ CreateSessionCall(ttl, rec)
    \/ \E me \in Tasks, ok \in BOOLEAN : CreateSessionLaunched(me, ok)
    \/ \E me \in Tasks, ok \in BOOLEAN : CreateSessionInit(me, ok)
    \/ \E id \in Ids : now <= MaxTime /\ ResetSessionTTL(id)
    \/ \E h \in timers : TimerFire(h)
    \/ \E me \in Tasks, ok \in BOOLEAN : CleanupClosed(me, ok)
    \/ \E me \in Tasks, ok \in BOOLEAN : CleanupFinalized(me, ok)
    \/ \E me \in Tasks, ok \in BOOLEAN : CleanupRemoved(me, ok)

SpecExpiry ==
    /\ Init /\ [][NextExpiry]_vars
    /\ WF_vars(Tick)
    /\ WF_vars(~Creating /\ Sleep)
    /\ WF_vars(\E h \in timers : TimerFire(h))
    /\ WF_vars(\E me \in Tasks, ok \in BOOLEAN : CreateSessionLaunched(me, ok))
    /\ WF_vars(\E me \in Tasks, ok \in BOOLEAN : CreateSessionInit(me, ok))
    /\ WF_vars(\E me \in Tasks, ok \in BOOLEAN : CleanupClosed(me, ok))
    /\ WF_vars(\E me \in Tasks, ok \in BOOLEAN : CleanupFinalized(me, ok))
    /\ WF_vars(\E me \in Tasks, ok \in BOOLEAN : CleanupRemoved(me, ok))

\* Expiry under load: commands are started on the first session created, none
\* once an expiry teardown is under way, while its timer runs out; the awaited
\* browser operations of create and teardown succeeding.
NextInFlight ==
    \/ Tick
    \/ nextId = 1 /\ CreateSessionCall(TTL_MIN, FALSE)
    \/ \E me \in Tasks : CreateSessionLaunched(me, TRUE)
    \/ \E me \in Tasks : CreateSessionInit(me, TRUE)
    \/ \E h \in timers : TimerFire(h)
    \/ \E me \in Tasks : CleanupClosed(me, TRUE)
    \/ \E me \in Tasks : CleanupRemoved(me, TRUE)
    \/ /\ \A t \in Tasks : t.op # "timer"
       /\ \E id \in Ids, cmd \in commandRegistry : ExecuteCommandCall(id, cmd)
    \/ \E me \in Tasks, res \in Outcomes : ExecuteCommandDone(me, res)

SpecInFlight == Init /\ [][NextInFlight]_vars

\* ---- single commands whose handler fails, told apart by error message ----
NextClassify ==
    \/ CreateSessionCall(TTL_MIN, FALSE)
    \/ \E me \in Tasks : CreateSessionLaunched(me, TRUE)
    \/ \E me \in Tasks : CreateSessionInit(me, TRUE)
    \/ \E id \in Ids : StopRoute(id)
    \/ \E me \in Tasks : CleanupClosed(me, TRUE)
    \/ \E me \in Tasks : CleanupRemoved(me, TRUE)
    \/ \E id \in Ids, cmd \in Commands : ExecuteCommandCall(id, cmd)
    \/ \E me \in Tasks : ExecuteCommandDone(me, "ok")
    \/ \E me \in Tasks, message \in Messages : ExecuteCommandThrown(me, message)

SpecClassify == Init /\ [][NextClassify]_vars

\* ------------------------------------------------------------------ claims
Armed(id) == {h \in timers : h.sid = id}
Teardowns(id) == {me \in Tasks : me.sid = id /\ me.pc \in {"close", "finalize", "rm"}}

\* C1: the registry never holds more than MAX_CONCURRENT_SESSIONS sessions,
\* under any interleaving of concurrent createSession calls.
C1_Claim == Cardinality(sessions) <= MAX_CONCURRENT_SESSIONS

\* C2: once a termination of id has completed (sessions.delete ran), getSession(id)
\* fails with SessionNotFound in every later state.
C2_NeverResolvableAgain ==
    \A id \in Ids : effects[id].deletes > 0 => getSession(id) = "SessionNotFound"

C2_Witness ==
    \E id \in Ids : /\ effects[id].deletes > 0
                    /\ ret = Ret("stop", id, "SessionNotFound")
                    /\ sessions # {}

\* C3: every session in the registry has an open context (getSession never
\* returns a session whose context is closed).
C3_Claim == \A id \in sessions : ctx[id] = "open"

\* C4: cleanupSession(id) for an id that is not in the registry returns without
\* error and changes neither registry, session objects, contexts, timers, the
\* recording tracker, the filesystem nor any running call.
C4_AbsentIsNoop ==
    [][\A id \in Ids :
          (id \notin sessions /\ CleanupSessionCall(id)) =>
             /\ UNCHANGED <<server, globalProxyConfig, contextOptions,
                            now, nextId, sessions, heap, ctx, timers, sessionMetadata,
                            userDataDirs, recordings, effects, tasks>>
             /\ ret' = Ret("cleanupSession", id, "absent")]_vars

C4_Witness ==
    /\ ret.op = "cleanupSession"
    /\ ret.out = "absent"
    /\ effects[ret.sid].deletes > 0

\* C5: per session, context close, markSessionEnded and the user-data directory
\* deletion each happen at most once, however many terminate calls are made.
C5_Claim ==
    \A id \in Ids : /\ effects[id].closeCalls <= 1
                    /\ effects[id].markEnded <= 1
                    /\ effects[id].rmCalls <= 1

\* C6: teardown steps are ordered: the timer is cancelled when close() starts;
\* finalization and markSessionEnded only after a close has settled; the
\* directory removal after that; the Map entry is deleted last.
C6_TeardownOrder ==
    \A id \in Ids :
       LET e == effects[id] IN
       /\ e.closeCalls > 0 => Armed(id) = {}
       /\ e.closeDone <= e.closeCalls
       /\ e.finalizeRuns <= e.closeDone
       /\ e.markEnded <= e.finalizeRuns
       /\ e.rmCalls <= e.closeDone
       /\ (id \in DOMAIN heap /\ heap[id].recording) => e.rmCalls <= e.markEnded
       /\ e.deletes <= e.rmCalls
       /\ (id \in DOMAIN heap /\ id \notin sessions) => e.rmCalls > 0

C6_Witness ==
    \E id \in DOMAIN heap : /\ heap[id].recording
                            /\ effects[id].markEnded = 1
                            /\ effects[id].deletes = 1
                            /\ sessionMetadata[id] # NoTime

\* C7: whichever of close, finalization and directory removal fail, no
\* cleanupSession call ends with an error, a teardown that has run to its end
\* has removed the registry entry, and every teardown that has started leads
\* to the entry being removed.
C7_FailuresTolerated ==
    /\ [](\A id \in Ids : (effects[id].closeCalls > 0 /\ Teardowns(id) = {})
                              => id \notin sessions)
    /\ [](ret.op \in {"stop", "cleanupSession", "timer"}
              => ret.out \in {"ok", "absent", "SessionNotFound"})
    /\ \A id \in Ids : (effects[id].closeCalls > 0) ~> (id \notin sessions)

C7_Witness ==
    \E id \in DOMAIN heap : /\ heap[id].recording
                            /\ id \notin sessions
                            /\ ret = Ret("stop", id, "ok")
                            /\ ctx[id] = "open"
                            /\ recordings[id] = "raw"
                            /\ id \in userDataDirs

\* C8: a successful command on a registered session (whose teardown has not
\* begun) resets its TTL: lastActivityAt = now, expiresAt = now + ttl and a
\* timer of length ttl from now is the armed one.
C8_Claim ==
    [][\A me \in Tasks :
          (/\ ExecuteCommandDone(me, "ok")
           /\ me.sid \in sessions
           /\ effects[me.sid].closeCalls = 0) =>
             /\ heap'[me.sid].lastActivityAt = now
             /\ heap'[me.sid].expiresAt = now + heap[me.sid].ttl
             /\ Armed(me.sid)' = {[sid |-> me.sid, n |-> heap'[me.sid].timeoutHandle,
                                   deadline |-> now + heap[me.sid].ttl]}]_vars

\* C9: every registered session has expiresAt = lastActivityAt + ttl and
\* createdAt <= lastActivityAt; lastActivityAt and expiresAt never decrease.
C9_Timestamps ==
    /\ [](\A id \in sessions :
             /\ heap[id].expiresAt = heap[id].lastActivityAt + heap[id].ttl
             /\ heap[id].createdAt <= heap[id].lastActivityAt)
    /\ [][\A id \in DOMAIN heap :
             /\ heap'[id].lastActivityAt >= heap[id].lastActivityAt
             /\ heap'[id].expiresAt >= heap[id].expiresAt]_vars

C9_Witness ==
    \E id \in sessions : heap[id].lastActivityAt > heap[id].createdAt

\* C10: a session has at most one armed expiry timer; a registered session whose
\* teardown has not begun has exactly one, the one its timeoutHandle names.
C10_OneTimer ==
    \A id \in Ids :
       /\ Cardinality(Armed(id)) <= 1
       /\ \A h \in Armed(id) : h.n = heap[id].timeoutHandle
       /\ (id \in sessions /\ effects[id].closeCalls = 0) => Armed(id) # {}

C10_Witness ==
    \E id \in sessions : /\ heap[id].timeoutHandle = 2
                         /\ Cardinality(Armed(id)) = 1

\* C11: a command that fails with ExecutionError on a registered session (whose
\* teardown has not begun) triggers the teardown of that session.
C11_Claim ==
    [][\A me \in Tasks :
          (/\ ExecuteCommandDone(me, "ExecutionError")
           /\ me.sid \in sessions
           /\ effects[me.sid].closeCalls = 0) =>
             effects'[me.sid].closeCalls > 0]_vars

\* the steps in which the suspended executeCommandSequence call me returns
SeqReturns(me) ==
    /\ me.op = "executeCommandSequence"
    /\ SeqUrlDone(me) \/ \E res \in Settled : SeqExecuted(me, res)
    /\ tasks' = Return(me)

\* C12: the result of executeCommandSequence for the requests list commands has
\* completedCount + (1 if halted else 0) = length(results), totalCount =
\* length(commands), results[k] carrying index k and the command of request k,
\* and no entry after the first entry with status error.
C12_ResultShape ==
    [][\A me \in Tasks : SeqReturns(me) =>
          LET r == ret'.val IN
          /\ r.completedCount + (IF r.halted THEN 1 ELSE 0) = Len(r.results)
          /\ r.totalCount = Len(me.commands)
          /\ Len(r.results) <= Len(me.commands)
          /\ \A k \in DOMAIN r.results :
                /\ r.results[k].index = k - 1
                /\ r.results[k].command = me.commands[k]
                /\ r.results[k].status = "error" => k = Len(r.results)]_vars

C12_Witness ==
    /\ ret.op = "executeCommandSequence"
    /\ ret.out = "returned"
    /\ ret.val.totalCount = 3
    /\ ret.val.completedCount = 1
    /\ ret.val.halted
    /\ Len(ret.val.results) = 2

\* the handler invocations logged in a sequence of request indices
Invoked(calls) == {calls[j] : j \in DOMAIN calls}

\* C13: once the step at index i of a sequence has failed, no handler is invoked
\* for a request at an index > i: a running sequence holds no error entry and
\* has invoked no handler beyond its current index, and a returned result ends
\* at its error entry with no handler invoked beyond that entry's index.
C13_HaltsAtFirstFailure ==
    /\ [](\A me \in Tasks : me.op = "executeCommandSequence" =>
             /\ \A k \in DOMAIN me.results : me.results[k].status = "success"
             /\ \A i \in Invoked(me.calls) : i <= me.index)
    /\ [][\A me \in Tasks : SeqReturns(me) =>
             LET r == ret'.val IN
             \A k \in DOMAIN r.results : r.results[k].status = "error" =>
                /\ Len(r.results) = k
                /\ \A i \in Invoked(r.calls) : i <= r.results[k].index]_vars

C13_Witness ==
    /\ ret.op = "executeCommandSequence"
    /\ ret.out = "returned"
    /\ ret.val.totalCount = 3
    /\ [k \in DOMAIN ret.val.results |-> ret.val.results[k].status] = <<"success", "error">>
    /\ ret.val.results[2].error = "ElementNotFound"
    /\ ret.val.calls = <<0, 1>>

\* C14: in a returned sequence result, halted is true exactly when the result
\* list has an entry with status error, and that entry is then the only one
\* and the last of the list.
C14_HaltedIffError ==
    (ret.op = "executeCommandSequence" /\ ret.out = "returned") =>
        LET r == ret.val
            errors == {k \in DOMAIN r.results : r.results[k].status = "error"}
        IN /\ r.halted <=> errors # {}
           /\ r.halted => errors = {Len(r.results)}

C14_Witness ==
    /\ ret.op = "executeCommandSequence"
    /\ ret.out = "returned"
    /\ ret.val.halted
    /\ Len(ret.val.results) = 3
    /\ ret.val.results[3].status = "error"
    /\ ret.val.results[3].error = "Timeout"

\* C15: in a returned sequence result, halted is true exactly when at least one
\* request of the input was never attempted (length(results) < totalCount).
C15_Claim ==
    (ret.op = "executeCommandSequence" /\ ret.out = "returned") =>
        (ret.val.halted <=> Len(ret.val.results) < ret.val.totalCount)

\* C15 as amended: halted is true exactly when the last attempted step failed;
\* a result shorter than the input is always halted, and a halted result as
\* long as the input is one whose last request failed.
C15_HaltedIffStepFailed ==
    (ret.op = "executeCommandSequence" /\ ret.out = "returned") =>
        LET r == ret.val
            n == Len(r.results)
        IN /\ r.halted <=> r.results[n].status = "error"
           /\ n < r.totalCount => r.halted
           /\ ~r.halted => n = r.totalCount

C15_Witness ==
    /\ ret.op = "executeCommandSequence"
    /\ ret.out = "returned"
    /\ ret.val.halted
    /\ ret.val.totalCount = 2
    /\ Len(ret.val.results) = 2
    /\ ret.val.results[2].error = "ExecutionError"

\* C16: within one executeCommandSequence call the handlers are invoked in
\* request order, the handler of request i+1 only after the step of request i
\* was recorded as a success, whatever other calls are suspended meanwhile.
C16_StrictOrder ==
    \A me \in Tasks : me.op = "executeCommandSequence" =>
        /\ \A j \in DOMAIN me.calls :
              /\ me.calls[j] = j - 1
              /\ j > 1 => /\ j - 1 <= Len(me.results)
                          /\ me.results[j - 1].index = j - 2
                          /\ me.results[j - 1].status = "success"
        /\ (me.pc = "exec" /\ me.settled = "handler") =>
              /\ me.calls[Len(me.calls)] = me.index
              /\ Len(me.results) = me.index

C16_Witness ==
    \E me \in Tasks, other \in Tasks :
        /\ me.op = "executeCommandSequence"
        /\ me.calls = <<0, 1, 2>>
        /\ me.settled = "handler"
        /\ other.op = "executeCommand"
        /\ other.sid = me.sid

\* C17: a sequence that holds a command name missing from the command registry,
\* at any index, has none of its commands executed against the session.
C17_Claim ==
    \A me \in Tasks :
        (/\ me.op = "executeCommandSequence"
         /\ \E k \in DOMAIN me.commands : me.commands[k] \notin commandRegistry)
        => me.calls = <<>>

\* C18: SessionNotFound never appears as an entry of a sequence result (it is
\* only ever raised to the caller), also when the session is removed while the
\* sequence is between two steps.
C18_Claim ==
    (ret.op = "executeCommandSequence" /\ ret.out = "returned") =>
        \A k \in DOMAIN ret.val.results : ret.val.results[k].error # "SessionNotFound"

\* the sequence calls in flight
RunningSequences == {me \in Tasks : me.op = "executeCommandSequence"}

C21_CapacityRejects ==
    [][\A ttl \in TTLs, rec \in BOOLEAN :
          (/\ Cardinality(sessions) >= MAX_CONCURRENT_SESSIONS
           /\ CreateSessionCall(ttl, rec)) =>
             /\ ret' = Ret("createSession", 0, "MaxSessionsReached")
             /\ UNCHANGED <<server, globalProxyConfig, contextOptions,
                            now, nextId, sessions, heap, ctx, timers, sessionMetadata,
                            userDataDirs, recordings, effects, tasks>>]_vars

C21_Witness ==
    /\ ret = Ret("createSession", 0, "MaxSessionsReached")
    /\ Cardinality(sessions) = MAX_CONCURRENT_SESSIONS
    /\ \A id \in sessions : Armed(id) # {} /\ ctx[id] = "open"

\* C22: the proxy stored on a created session, and the one its context was
\* launched with, is the proxy the request supplied whenever it supplied one,
\* whatever the global default; else the global default when one is
\* configured; else none (direct connection).
C22_Expected(me) ==
    IF me.optProxy # NoProxy THEN me.optProxy
    ELSE IF globalProxyConfig # NoProxy THEN globalProxyConfig
    ELSE NoProxy
C22_EffectiveProxy ==
    [][\A me \in Tasks :
         (me.op = "createSession" /\ me.sid \in sessions' \ sessions)
         => /\ heap'[me.sid].proxyConfig = C22_Expected(me)
            /\ contextOptions'[me.sid] =
                 IF C22_Expected(me) = NoProxy THEN Direct
                 ELSE toPlaywrightProxy(C22_Expected(me))]_vars
\* a registered session runs through its own proxy although a global default
\* is configured
C22_Witness ==
    \E id \in sessions :
        /\ globalProxyConfig # NoProxy
        /\ heap[id].proxyConfig \notin {NoProxy, globalProxyConfig}
        /\ contextOptions[id] = toPlaywrightProxy(heap[id].proxyConfig)

\* C23: a create-session request whose proxy (a server URL that parses, with a
\* supported protocol) has a username without a password or a password without
\* a username, embedded in the URL or given as separate fields, fails with
\* ProxyValidationError listing incomplete authentication, and creates nothing:
\* registry, timers and artifact tracker are unchanged.
C23_Has(str) == str \notin {Undef, ""}
C23_Incomplete(proxy) ==
    /\ proxy.given
    /\ proxy.server.valid
    /\ proxy.server.protocol \in SUPPORTED_PROTOCOLS
    /\ \/ C23_Has(proxy.server.username) # C23_Has(proxy.server.password)
       \/ C23_Has(proxy.username) # C23_Has(proxy.password)
C23_Claim ==
    [][\A proxy \in ProxyRequests :
         (C23_Incomplete(proxy) /\ CreateSessionRoute(TTL_MIN, FALSE, proxy))
         => /\ ret'.out = "ProxyValidationError"
            /\ "Proxy authentication incomplete" \in ret'.details
            /\ UNCHANGED <<sessions, heap, timers, sessionMetadata, tasks>>]_vars

\* C24: the global proxy is loaded and validated once, at process start and
\* before the server listens; when it is invalid the process ends there, and
\* a process ended that way never creates a session; the global default does
\* not change once startup has passed the load.
C24_FailFast ==
    [][/\ \A envUrl \in EnvProxyUrls :
            (StartServer(envUrl) /\ ~getGlobalProxyConfig(envUrl).ok)
            => server' = "exited"
       /\ server = "exited"
          => server' = "exited" /\ UNCHANGED <<nextId, sessions, heap, tasks>>
       /\ server # "starting" => globalProxyConfig' = globalProxyConfig
       /\ server' = "listening"
          => \/ globalProxyConfig' = NoProxy
             \/ validateProxyConfig(globalProxyConfig') = {}]_vars
\* startup ended on an invalid global proxy, with nothing created
C24_Witness == server = "exited" /\ nextId = 1 /\ sessions = {} /\ tasks = EmptyBag

\* C25: proxyConfig and recordingMetadata of a session are write-once, and so
\* are id, ttl and createdAt: once createSession has built the session object,
\* no step (command, TTL reset, listing, expiry, stop, teardown) changes them.
C25_WriteOnce ==
    [][\A id \in DOMAIN heap :
         /\ heap'[id].proxyConfig = heap[id].proxyConfig
         /\ heap'[id].recording = heap[id].recording
         /\ heap'[id].id = heap[id].id
         /\ heap'[id].ttl = heap[id].ttl
         /\ heap'[id].createdAt = heap[id].createdAt]_vars
\* a recorded session with a proxy was kept alive after the clock moved, then
\* torn down
C25_Witness ==
    \E id \in DOMAIN heap :
        /\ heap[id].proxyConfig # NoProxy
        /\ heap[id].recording
        /\ heap[id].timeoutHandle > 1
        /\ heap[id].lastActivityAt > heap[id].createdAt
        /\ id \notin sessions

\* the steps in which the sweep me returns
C26_Returns(me) == me.op = "cleanupOldRecordings" /\ tasks' = Return(me)
\* a step drops a tracking entry only together with its storage, and drops or
\* deletes only an artifact that ended more than one hour ago
C26_OnlyExpired ==
    /\ \A id \in DOMAIN sessionMetadata \ DOMAIN sessionMetadata' :
           id \notin DOMAIN recordings'
    /\ \A id \in (DOMAIN sessionMetadata \ DOMAIN sessionMetadata')
                 \cup (DOMAIN recordings \ DOMAIN recordings') :
           /\ id \in DOMAIN sessionMetadata
           /\ sessionMetadata[id] # NoTime
           /\ now - sessionMetadata[id] > ONE_HOUR_MS

\* C26 as stated: when a sweep returns, no tracked artifact that ended more
\* than one hour before the sweep began is left, storage and entry are gone
\* together, and nothing else was deleted or dropped.
C26_Claim ==
    [][/\ \A me \in Tasks :
            C26_Returns(me)
            => \A id \in DOMAIN sessionMetadata' :
                   ~Expired(sessionMetadata'[id], me.t0)
       /\ C26_OnlyExpired]_vars

\* C26: when a sweep returns, every tracked artifact that ended more than one
\* hour before the sweep began is gone, entry and storage together, unless the
\* sweep logged the failure of its deletion, in which case both are kept; the
\* sweep never deletes or drops an artifact whose end-time is unset, nor one
\* whose end-time was at most one hour in the past when the sweep tested it.
C26_Sweeps == {t \in Tasks : t.op = "cleanupOldRecordings"}
C26_SweepDrops ==
    [][/\ \A me \in Tasks :
            C26_Returns(me)
            => \A id \in DOMAIN sessionMetadata' :
                   Expired(sessionMetadata'[id], me.t0)
                   => /\ id \in me.failed \cup {me.sid}
                      /\ id \in DOMAIN recordings'
       /\ \A t \in C26_Sweeps' \ C26_Sweeps :
            /\ t.sid \in DOMAIN sessionMetadata'
            /\ sessionMetadata'[t.sid] # NoTime
            /\ t.t0 - sessionMetadata'[t.sid] > ONE_HOUR_MS
       /\ \A id \in DOMAIN sessionMetadata \ DOMAIN sessionMetadata' :
            id \notin DOMAIN recordings'
       /\ \A id \in (DOMAIN sessionMetadata \ DOMAIN sessionMetadata')
                     \cup (DOMAIN recordings \ DOMAIN recordings') :
            /\ id \in DOMAIN sessionMetadata
            /\ sessionMetadata[id] # NoTime
            /\ \E me \in C26_Sweeps : me.sid = id]_vars
\* a sweep has returned after removing one ended recording and failing to
\* remove another, while no other sweep runs
C26_Witness ==
    /\ ret.op = "cleanupOldRecordings"
    /\ \A t \in Tasks : t.op # "cleanupOldRecordings"
    /\ \E id \in Ids : /\ effects[id].markEnded > 0
                       /\ id \notin DOMAIN sessionMetadata
                       /\ id \notin DOMAIN recordings
    /\ \E id \in DOMAIN sessionMetadata : /\ Expired(sessionMetadata[id], now)
                                          /\ id \in DOMAIN recordings

\* C27: every recording artifact registered with the tracker is eventually
\* removed from storage and from the tracker.  The sweep passes over an entry
\* whose end-time is unset, and the end-time is set only by the teardown of a
\* registered session; so the claim needs every tracked entry without an
\* end-time to belong to a session that is registered or still being created.
C27_Claim ==
    \A id \in DOMAIN sessionMetadata :
        sessionMetadata[id] = NoTime
        => \/ id \in sessions
           \/ \E t \in Tasks : t.op = "createSession" /\ t.sid = id

\* C28: a session without renewed activity is torn down by its TTL and by no
\* client call: its expiry timer does not fire before ttl has passed since the
\* last activity, and every registered session is eventually removed from the
\* registry.
C28_ExpiresByTTL ==
    /\ [][\A h \in timers :
            (TimerFire(h) /\ h.sid \in sessions)
            => now >= heap[h.sid].lastActivityAt + heap[h.sid].ttl]_vars
    /\ \A id \in Ids : (id \in sessions) ~> (id \notin sessions)
\* a session was removed by the teardown its timer started, after its ttl
C28_Witness ==
    \E id \in DOMAIN heap :
        /\ id \notin sessions
        /\ ret = Ret("timer", id, "ok")
        /\ now >= heap[id].lastActivityAt + heap[id].ttl
        /\ heap[id].timeoutHandle > 1

\* C29: when the TTL timer of a session fires while a command of that session
\* is in flight, the teardown starts without waiting for the command or
\* cancelling it, and a command that settles after its session was removed
\* ends as a failure, never as a success.
C29_InFlight(id) == {t \in Tasks : t.op = "executeCommand" /\ t.sid = id}
C29_Claim ==
    [][/\ \A h \in timers :
            (TimerFire(h) /\ h.sid \in sessions /\ C29_InFlight(h.sid) # {})
            => /\ C29_InFlight(h.sid)' = C29_InFlight(h.sid)
               /\ \E t \in Tasks' : t.op = "timer" /\ t.sid = h.sid
       /\ \A me \in Tasks :
            (me.op = "executeCommand" /\ me.sid \notin sessions
               /\ tasks' = Return(me))
            => ret'.out # "ok"]_vars

\* C30: the termination of one session, by the expiry of its TTL, by an
\* explicit stop or by a direct teardown, with or without failures on the way,
\* leaves every other session as it was: its registry entry, its session
\* object, its expiry timer, its context, its directories and its recording
\* tracking entry.
C30_Terminates(id) ==
    \/ StopRoute(id)
    \/ CleanupSessionCall(id)
    \/ \E h \in timers : h.sid = id /\ TimerFire(h)
    \/ \E me \in Tasks, ok \in BOOLEAN :
          /\ me.sid = id
          /\ \/ CleanupClosed(me, ok)
             \/ CleanupFinalized(me, ok)
             \/ CleanupRemoved(me, ok)
C30_Same(f, g, id) == (id \in DOMAIN f) = (id \in DOMAIN g)
                      /\ (id \in DOMAIN f => f[id] = g[id])
C30_Untouched(id) ==
    /\ (id \in sessions') = (id \in sessions)
    /\ C30_Same(heap, heap', id)
    /\ {h \in timers' : h.sid = id} = {h \in timers : h.sid = id}
    /\ C30_Same(ctx, ctx', id)
    /\ C30_Same(sessionMetadata, sessionMetadata', id)
    /\ C30_Same(recordings, recordings', id)
    /\ (id \in userDataDirs') = (id \in userDataDirs)
C30_Isolation ==
    [][\A id \in Ids :
         C30_Terminates(id) => \A other \in Ids \ {id} : C30_Untouched(other)]_vars
\* one session is in the last step of its teardown while another one is
\* registered, its context open, its timer armed and its recording tracked
C30_Witness ==
    \E id \in Ids, other \in sessions :
        /\ other # id
        /\ \E t \in Tasks : t.pc = "rm" /\ t.sid = id
        /\ ctx[other] = "open"
        /\ \E h \in timers : h.sid = other
        /\ other \in DOMAIN sessionMetadata

\* ---- C31 ----
\* the calls whose command handler is in progress against session id: a
\* single command awaiting its handler (command.ts:323) or a sequence step
\* awaiting the executeCommand that reached its handler (command.ts:369)
C31_InProgress(id) == {t \in Tasks : /\ t.sid = id
                                     /\ t.op \in {"executeCommand", "executeCommandSequence"}
                                     /\ IF t.op = "executeCommand" THEN t.pc = "handler"
                                        ELSE t.pc = "exec" /\ t.settled = "handler"}
\* C31: at every instant at most one command handler is in progress against
\* a given session, also when several command requests for that session
\* arrive concurrently.
C31_Claim ==
    \A id \in Ids : \A t, u \in C31_InProgress(id) :
        t = u /\ CopiesIn(t, tasks) = 1

\* ---- C32 ----
\* what a call to executeCommand may end with: a value ("ok") or one of the
\* five classified errors
C32_Classes == {"SessionNotFound", "CommandNotFound", "Timeout", "ElementNotFound",
                "ExecutionError"}
C32_TimeoutShaped(message) == "Timeout" \in message
C32_ElementShaped(message) == "waiting for selector" \in message \/ "not found" \in message
C33_StepMeets(met, calls) ==
    \E t \in BagToSet(tasks') :
        /\ t.op = "executeCommandSequence" /\ tasks' = Suspend(t)
        /\ t.index = 0 /\ t.settled = met /\ t.calls = calls
\* C33: a single command c and the sequence [c], started in the same state,
\* invoke the same handler once and report the same outcome: where the single
\* call executeCommand(id, c) fails before a handler runs, the sequence
\* reports that same failure (raised, or as the failure of its only step);
\* where it reaches the handler, the sequence's step invokes it, once.
C33_Claim ==
    [][\A id \in Ids, cmd \in Commands :
          ExecuteSequenceCall(id, <<cmd>>) =>
             IF executeCommand(id, cmd) = "handler"
             THEN C33_StepMeets("handler", <<0>>)
             ELSE \/ ret' = Ret("executeCommandSequence", id, executeCommand(id, cmd))
                  \/ C33_StepMeets(executeCommand(id, cmd), <<>>)]_vars

\* ---- C34 ----
\* a proxy request whose server URL is acceptable and carries both
\* credentials, sent together with separate username/password fields
C34_Both(proxy) ==
    /\ proxy.given
    /\ proxy.server.valid
    /\ proxy.server.protocol \in SUPPORTED_PROTOCOLS
    /\ proxy.server.port # "0"
    /\ C23_Has(proxy.server.username) /\ C23_Has(proxy.server.password)
    /\ proxy.username # Undef \/ proxy.password # Undef
\* C34: when a session proxy request carries credentials embedded in
\* proxy.server and also separate username/password fields, the embedded
\* credentials take precedence: the ProxyConfig the session is created with
\* has the username and the password of the server URL.
C34_Claim ==
    [][\A proxy \in ProxyRequests :
         (C34_Both(proxy) /\ CreateSessionRoute(TTL_MIN, FALSE, proxy))
         => \E t \in BagToSet(tasks') :
               /\ t.op = "createSession" /\ tasks' = Suspend(t)
               /\ t.optProxy.username = proxy.server.username
               /\ t.optProxy.password = proxy.server.password]_vars

\* ---- C35 ----
\* C35: the deadline of a session's outstanding expiry timer always equals the
\* session's expiresAt: a session in the registry never has an armed timer
\* that fires later than expiresAt, after createSession and after a TTL reset.
C35_Claim ==
    \A id \in sessions : \A h \in Armed(id) : h.deadline = heap[id].expiresAt

\* ---- C36 ----
\* C36: for every session id that is not in the registry there is no
\* outstanding expiry timer, also when resetSessionTTL is applied to a session
\* object obtained before or during its teardown.
C36_Claim == \A h \in timers : h.sid \in sessions

\* ---- C37 ----
\* C37: a createSession that fails after the capacity check (the context
\* launch or the init-script injection throws) leaves no residue: the registry
\* is unchanged, no expiry timer is armed for the failed id, and the recording
\* tracker holds no entry for it.
C37_Claim ==
    [][\A me \in Tasks :
          (CreateSessionLaunched(me, FALSE) \/ CreateSessionInit(me, FALSE))
          => /\ sessions' = sessions
             /\ Armed(me.sid)' = {}
             /\ me.sid \notin DOMAIN sessionMetadata']_vars

\* ---- C38 ----
\* C38: the end-time of a tracked recording is set at most once: after
\* markSessionEnded has set it, no later operation on that session id changes
\* it (the entry may only be dropped), so the retention countdown never
\* restarts.
C38_Claim ==
    [][\A id \in DOMAIN sessionMetadata :
          (sessionMetadata[id] # NoTime /\ id \in DOMAIN sessionMetadata')
          => sessionMetadata'[id] = sessionMetadata[id]]_vars

\* ---- C39 ----
\* C39: no command handler is started against a session after its teardown
\* has begun: once cleanupSession has cancelled the timer and started to close
\* the context, every executeCommand for that id with a registered command
\* fails with SessionNotFound, and no call (the next step of a sequence in
\* progress included) comes to await a handler against that session.
C39_Claim ==
    [][\A id \in Ids :
          Teardowns(id) # {} =>
             /\ \A cmd \in commandRegistry :
                   ExecuteCommandCall(id, cmd)
                   => ret' = Ret("executeCommand", id, "SessionNotFound")
             /\ C31_InProgress(id)' \subseteq C31_InProgress(id)]_vars

====
